---- MODULE Spec2Model ----
(***************************************************************************)
(* A model of search.py: the ARC grants search client.                     *)
(*   build_filter_query  the filter string from free text and criteria     *)
(*   fetch_grants        the paginated fetch loop                          *)
(*   export_to_csv       the CSV exporter                                  *)
(*   export_to_sqlite    the table exporter                                *)
(*   main                the pipeline: build, fetch, export, export        *)
(* An optional Python value (None or a value) is a sequence of length 0 or *)
(* 1.  A JSON value is a record [t |-> kind, v |-> payload].               *)
(***************************************************************************)
EXTENDS Integers, Sequences, FiniteSets, TLC

VARIABLES
    pc,            \* position of the running call / of main
    args,          \* the arguments of build_filter_query (argparse namespace)
    filter_query,  \* the value build_filter_query returned (optional)
    page_size,     \* fetch_grants argument
    max_pages,     \* fetch_grants argument (optional integer)
    results,       \* ARCGrantsAPI.results
    page,          \* fetch_grants local
    total_pages,   \* fetch_grants local (optional)
    response,      \* fetch_grants local: the last Response object bound (optional)
    requests,      \* the GET requests issued so far, in order
    served,        \* what the API answered to each request, in order
    log,           \* the diagnostics printed by fetch_grants, in order
    exception,     \* the exception that left the running call (optional)
    csvFile,       \* the CSV destination
    csvRet,        \* what export_to_csv returned (optional)
    db,            \* the SQLite destination
    sqliteRet      \* what export_to_sqlite returned (optional)

vars == <<pc, args, filter_query, page_size, max_pages, results, page, total_pages,
          response, requests, served, log, exception, csvFile, csvRet, db, sqliteRet>>

fetchVars == <<page_size, max_pages, results, page, total_pages, response, requests,
               served, log, exception>>
exportVars == <<csvFile, csvRet, db, sqliteRet>>

None == <<>>
Some(x) == <<x>>

\* Python truthiness of an optional string: None and "" are falsy.
Truthy(o) == o # None /\ o[1] # ""

(***************************************************************************)
(* build_filter_query                                                      *)
(***************************************************************************)

\* The twelve criteria, by parameter name.
Criteria == {"scheme", "admin_org", "admin_org_short", "status", "year_from",
             "year_to", "funding_from", "funding_to", "fellowships_only",
             "lief_register", "four_digit_for", "two_digit_for"}

ArgNames == {"search_text"} \cup Criteria

\* f'{field}="{value}"'
Clause(field, value) == field \o "=\"" \o value \o "\""

\* if <criterion>: filter_parts.append(...)
Part(a, param, field) ==
    IF Truthy(a[param]) THEN <<Clause(field, a[param][1])>> ELSE <<>>

FilterParts(a) ==
    Part(a, "scheme", "scheme")
    \o Part(a, "admin_org", "admin-org-name")
    \o Part(a, "admin_org_short", "admin-org-short-name")
    \o Part(a, "status", "status")
    \o Part(a, "year_from", "year-from")
    \o Part(a, "year_to", "year-to")
    \o Part(a, "funding_from", "funding-from")
    \o Part(a, "funding_to", "funding-to")
    \o Part(a, "fellowships_only", "fellowships-only")
    \o Part(a, "lief_register", "lief-register")
    \o Part(a, "four_digit_for", "four-digit-for")
    \o Part(a, "two_digit_for", "two-digit-for")

RECURSIVE JoinWith(_, _)
JoinWith(sep, parts) ==
    IF parts = <<>> THEN ""
    ELSE IF Len(parts) = 1 THEN parts[1]
    ELSE parts[1] \o sep \o JoinWith(sep, Tail(parts))

JoinOr(parts) == JoinWith(" OR ", parts)

\* ' AND '.join(filter_parts)
JoinAnd(parts) == JoinWith(" AND ", parts)

\* search_text or ""
TextOrEmpty(a) == IF Truthy(a["search_text"]) THEN a["search_text"][1] ELSE ""

build_filter_query(a) ==
    LET text == TextOrEmpty(a)
        filter_parts == FilterParts(a)
    IN  IF text # "" /\ filter_parts # <<>>
          THEN text \o " => (" \o JoinAnd(filter_parts) \o ")"
        ELSE IF filter_parts # <<>>
          THEN "=> (" \o JoinAnd(filter_parts) \o ")"
        ELSE text

\* The value a criterion carries when it is given and non-empty.
ArgValue ==
    [search_text |-> "coral reef", scheme |-> "DP", admin_org |-> "Monash University",
     admin_org_short |-> "ANU", status |-> "Active", year_from |-> "2019",
     year_to |-> "2021", funding_from |-> "1000", funding_to |-> "50000",
     fellowships_only |-> "true", lief_register |-> "false",
     four_digit_for |-> "0801", two_digit_for |-> "08"]

\* How many arguments are given as the empty string in one call.
MaxEmpty == 1

\* The argument vectors: every argument is absent or carries its value, and up
\* to MaxEmpty of them are the empty string instead.
ArgVectors ==
    { [n \in ArgNames |-> IF n \in given THEN (IF n \in empty THEN Some("") ELSE Some(ArgValue[n]))
                          ELSE None] :
        given \in SUBSET ArgNames,
        empty \in {e \in SUBSET ArgNames : Cardinality(e) <= MaxEmpty} }

(***************************************************************************)
(* JSON values and grant records                                           *)
(***************************************************************************)

Null == [t |-> "null"]
Num(n) == [t |-> "num", v |-> n]
Bool(b) == [t |-> "bool", v |-> b]
Str(s) == [t |-> "str", v |-> s]
List(l) == [t |-> "list", v |-> l]
Dict(k, x) == [t |-> "dict", v |-> <<k, x>>]

\* A grant record: "id" and "attributes" are keys the record may lack.  An
\* attribute name is the sequence of its characters.
Grant(id, attributes) == [id |-> id, attributes |-> attributes]

KeyAB == <<"a", "-", "b">>
KeyA_B == <<"a", "_", "b">>
KeyId == <<"i", "d">>

EmptyMap == [k \in {} |-> Null]

(***************************************************************************)
(* fetch_grants                                                            *)
(***************************************************************************)

\* The largest page number the API holds: no page from this one on links to a next.
MaxPage == 3

ApiPageLimit == 1000

\* min(page_size, 1000)
ClampSize(size) == IF size < ApiPageLimit THEN size ELSE ApiPageLimit

\* params, with "filter" only when filter_query is truthy
Params(fq, size, number) ==
    [size |-> ClampSize(size), number |-> number,
     filter |-> IF Truthy(fq) THEN fq ELSE None]

\* "links" not in data or "next" not in data["links"] or not data["links"]["next"]
NoNext(resp) ==
    IF resp.links = None THEN TRUE
    ELSE IF resp.links[1] = None THEN TRUE
    ELSE resp.links[1][1] \in {Null, Str("")}

ReachedMaxStrict(maxp, p) == maxp # None /\ maxp[1] # 0 /\ p > maxp[1]

\* max_pages and page >= max_pages
ReachedMax(maxp, p) == maxp # None /\ maxp[1] # 0 /\ p >= maxp[1]

ExtendFront(res, data) == data \o res

\* self.results.extend(data["data"])
Extend(res, data) == res \o data

\* page += 1
NextPage(p) == p + 1

\* The diagnostic of the except branch, by the status code it reads.
Diagnostic(status) ==
    IF status \in {401, 403} THEN "Authentication error or API access denied."
    ELSE IF status = 500 THEN "Server error. Check your query parameters."
    ELSE "HTTP error"

\* if total_pages is None and "meta" in data: data["meta"].get("total-pages", 1)
UpdateTotal(total, resp) ==
    IF total = None /\ resp.meta # None
      THEN (IF resp.meta[1] = None THEN Some(1) ELSE resp.meta[1])
      ELSE total

\* The records the modelled API serves.
GrantA == Grant(Some("A"), Some([k \in {KeyAB} |-> Num(50000)]))
GrantB == Grant(Some("B"), Some([k \in {KeyAB} |-> Str("x")]))

PageData == {<<>>, <<GrantA>>, <<GrantB, GrantA>>}

NextLink == Some(Some(Str("https://dataportal.arc.gov.au/next")))

OkResponses ==
    { [kind |-> "ok", status |-> 200, data |-> d, meta |-> m, links |-> l] :
        d \in {None} \cup {Some(x) : x \in PageData},
        m \in {None, Some(None), Some(Some(7))},
        l \in {None, Some(None), Some(Some(Null)), Some(Some(Str(""))), NextLink} }

HttpErrorResponses ==
    { [kind |-> "http", status |-> s] : s \in {401, 403, 404, 500} }

NetworkError == [kind |-> "net"]

\* fetch_grants is entered: self.results = [], page = 1, total_pages = None.
FetchEnter ==
    /\ results' = <<>>
    /\ page' = 1
    /\ total_pages' = None
    /\ response' = None
    /\ requests' = <<>>
    /\ served' = <<>>
    /\ log' = <<>>
    /\ exception' = None
    /\ UNCHANGED <<page_size, max_pages>>

\* One iteration whose requests.get raises: no Response is bound by it, and the
\* except branch reads response.status_code of whatever was bound before.
FetchNetworkError ==
    /\ pc = "loop"
    /\ requests' = Append(requests, Params(filter_query, page_size, page))
    /\ served' = Append(served, NetworkError)
    /\ IF response = None
         THEN /\ pc' = "crashed"
              /\ exception' = Some([type |-> "UnboundLocalError", in |-> "fetch_grants"])
              /\ log' = Append(log, "Error fetching page")
         ELSE /\ pc' = "fetched"
              /\ exception' = exception
              /\ log' = log \o <<"Error fetching page", Diagnostic(response[1].status)>>
    /\ UNCHANGED <<args, filter_query, page_size, max_pages, results, page, total_pages,
                   response>>
    /\ UNCHANGED exportVars

\* One iteration whose raise_for_status raises on a 4xx or 5xx status.
FetchHttpError ==
    /\ pc = "loop"
    /\ \E resp \in HttpErrorResponses :
        /\ requests' = Append(requests, Params(filter_query, page_size, page))
        /\ served' = Append(served, resp)
        /\ response' = Some(resp)
        /\ log' = log \o <<"Error fetching page", Diagnostic(resp.status)>>
    /\ pc' = "fetched"
    /\ UNCHANGED <<args, filter_query, page_size, max_pages, results, page, total_pages,
                   exception>>
    /\ UNCHANGED exportVars

\* One iteration whose request succeeds with a JSON body.  The API links no
\* page beyond MaxPage, and gives every page of one query the same meta.
FetchPageOk ==
    /\ pc = "loop"
    /\ \E resp \in OkResponses :
        /\ page >= MaxPage => NoNext(resp)
        /\ served # <<>> => resp.meta = served[1].meta
        /\ requests' = Append(requests, Params(filter_query, page_size, page))
        /\ served' = Append(served, resp)
        /\ response' = Some(resp)
        /\ IF resp.data = None
             THEN /\ log' = Append(log, "No data found in response.")
                  /\ pc' = "fetched"
                  /\ UNCHANGED <<results, total_pages, page>>
             ELSE /\ results' = Extend(results, resp.data[1])
                  /\ total_pages' = UpdateTotal(total_pages, resp)
                  /\ IF NoNext(resp)
                       THEN /\ log' = Append(log, "Reached end of results")
                            /\ pc' = "fetched"
                            /\ page' = page
                     ELSE IF ReachedMax(max_pages, page)
                       THEN /\ log' = Append(log, "Reached maximum requested pages")
                            /\ pc' = "fetched"
                            /\ page' = page
                     ELSE /\ log' = log
                          /\ pc' = "loop"
                          /\ page' = NextPage(page)
    /\ UNCHANGED <<args, filter_query, page_size, max_pages, exception>>
    /\ UNCHANGED exportVars

(***************************************************************************)
(* Helpers of the two exporters                                            *)
(***************************************************************************)

\* grant["attributes"] when the record has the key, else nothing to iterate.
Attributes(grant) == IF grant.attributes = None THEN EmptyMap ELSE grant.attributes[1]

\* fieldnames = set(); for grant in self.results: fieldnames.update(keys)
FieldNames(res) == UNION { DOMAIN Attributes(res[i]) : i \in DOMAIN res }

\* Unicode code points of the characters attribute names are written in.
CodePoint == [c \in {"-", "_", "a", "b", "d", "i"} |->
                 CASE c = "-" -> 45 [] c = "_" -> 95 [] c = "a" -> 97
                   [] c = "b" -> 98 [] c = "d" -> 100 [] c = "i" -> 105]

\* Python's str ordering: by code point, a proper prefix first.
RECURSIVE StrLess(_, _)
StrLess(x, y) ==
    IF y = <<>> THEN FALSE
    ELSE IF x = <<>> THEN TRUE
    ELSE IF x[1] # y[1] THEN CodePoint[x[1]] < CodePoint[y[1]]
    ELSE StrLess(Tail(x), Tail(y))

\* sorted(fieldnames)
RECURSIVE Sorted(_)
Sorted(S) ==
    IF S = {} THEN <<>>
    ELSE LET m == CHOOSE x \in S : \A y \in S \ {x} : StrLess(x, y)
         IN  <<m>> \o Sorted(S \ {m})

Quote(s) == "\"" \o s \o "\""

RECURSIVE QuoteAll(_)
QuoteAll(l) == IF l = <<>> THEN <<>> ELSE <<Quote(l[1])>> \o QuoteAll(Tail(l))

\* json.dumps(value) of a list of strings or of a one-entry mapping
JsonDumps(value) ==
    IF value.t = "list" THEN "[" \o JoinWith(", ", QuoteAll(value.v)) \o "]"
    ELSE "{" \o Quote(value.v[1]) \o ": " \o Quote(value.v[2]) \o "}"

\* json.dumps(value) if isinstance(value, (list, dict)) else value
Cell(value) == IF value.t \in {"list", "dict"} THEN Str(JsonDumps(value)) ELSE value

\* grant.get("id", "")
IdOf(grant) == IF grant.id = None THEN Str("") ELSE Str(grant.id[1])

(***************************************************************************)
(* export_to_csv                                                           *)
(***************************************************************************)

NoFile == [exists |-> FALSE, header |-> <<>>, rows |-> <<>>]
OldFile == [exists |-> TRUE, header |-> <<<<"i", "d">>>>, rows |-> << <<Str("OLD")>> >>]

\* fieldnames = ["id"] + sorted(list(fieldnames))
CsvFieldnames(res) == <<KeyId>> \o Sorted(FieldNames(res))

\* row = {"id": grant.get("id", "")}, then row[key] = ... for every attribute
CsvRow(grant) ==
    LET a == Attributes(grant)
    IN  [k \in {KeyId} \cup DOMAIN a |-> IF k \in DOMAIN a THEN Cell(a[k]) ELSE IdOf(grant)]

\* DictWriter.writerow: one cell per field name, "" for a key the row lacks
WriteRow(fieldnames, row) ==
    [i \in DOMAIN fieldnames |->
        IF fieldnames[i] \in DOMAIN row THEN row[fieldnames[i]] ELSE Str("")]

CsvReraise(file) ==
    [ret |-> None, file |-> file, exc |-> Some([type |-> "OSError", in |-> "export_to_csv"])]

\* except Exception: print, return False
CsvExcept(file) == [ret |-> Some(FALSE), file |-> file, exc |-> None]

CsvEmptyTruncates(file) ==
    [ret |-> Some(FALSE), file |-> [exists |-> TRUE, header |-> <<>>, rows |-> <<>>],
     exc |-> None]

\* if not self.results: return False
CsvEmpty(file) == [ret |-> Some(FALSE), file |-> file, exc |-> None]

\* openOk: whether open(filename, "w") succeeds
export_to_csv(res, file, openOk) ==
    IF res = <<>> THEN CsvEmpty(file)
    ELSE IF ~openOk THEN CsvExcept(file)
    ELSE [ret |-> Some(TRUE),
          file |-> [exists |-> TRUE,
                    header |-> CsvFieldnames(res),
                    rows |-> [i \in DOMAIN res |-> WriteRow(CsvFieldnames(res), CsvRow(res[i]))]],
          exc |-> None]

(***************************************************************************)
(* export_to_sqlite                                                        *)
(***************************************************************************)

\* The database: the grants table's columns when the table exists, the rows
\* committed to it, and the statements the last export issued with their
\* outcome.
NoTable == [table |-> None, rows |-> <<>>, stmts |-> <<>>]
OldTable ==
    [table |-> Some(<<[name |-> KeyId, type |-> "TEXT PRIMARY KEY"]>>),
     rows |-> << [c \in {KeyId} |-> Str("OLD")] >>,
     stmts |-> <<>>]

Stmt(op, ok, rec) == [op |-> op, ok |-> ok, rec |-> rec]

\* isinstance(value, (int, float)): bool is a subclass of int
IsNumber(value) == value.t \in {"num", "bool"}

\* for grant in self.results: ... the scan that guesses one field's type; it
\* leaves the loop only on a number
RECURSIVE ScanType(_, _, _)
ScanType(field, res, i) ==
    IF i > Len(res) THEN "TEXT"
    ELSE LET a == Attributes(res[i])
         IN  IF field \in DOMAIN a /\ a[field] # Null /\ IsNumber(a[field])
               THEN "REAL"
               ELSE ScanType(field, res, i + 1)

InferType(field, res) == ScanType(field, res, 1)

\* field.replace("-", "_")
SafeField(field) == [i \in DOMAIN field |-> IF field[i] = "-" THEN "_" ELSE field[i]]

\* fields = ["id TEXT PRIMARY KEY"] + one "<safe_field> <type>" per sorted field
CreateFields(res) ==
    LET sorted == Sorted(FieldNames(res))
    IN  <<[name |-> KeyId, type |-> "TEXT PRIMARY KEY"]>>
        \o [i \in DOMAIN sorted |->
              [name |-> SafeField(sorted[i]), type |-> InferType(sorted[i], res)]]

\* SQLite refuses a CREATE TABLE that names one column twice.
CreateSucceeds(fields) ==
    \A i, j \in DOMAIN fields : fields[i].name = fields[j].name => i = j

\* values = {"id": ...}; values[key.replace("-", "_")] = ... for every attribute
\* (attributes taken in sorted order: a later key overwrites a colliding one)
InsertValues(grant) ==
    LET a == Attributes(grant)
        sorted == Sorted(DOMAIN a)
        last(c) == CHOOSE i \in DOMAIN sorted :
                      /\ SafeField(sorted[i]) = c
                      /\ \A j \in DOMAIN sorted : SafeField(sorted[j]) = c => j <= i
    IN  [c \in {KeyId} \cup {SafeField(k) : k \in DOMAIN a} |->
            IF \E k \in DOMAIN a : SafeField(k) = c
              THEN Cell(a[sorted[last(c)]])
              ELSE IdOf(grant)]

\* The primary key refuses a row whose id a row inserted before it holds.
InsertSucceeds(values, inserted) ==
    \A i \in DOMAIN inserted : inserted[i][KeyId] # values[KeyId]

\* for grant in self.results: cursor.execute("INSERT ..."), until one raises
RECURSIVE InsertAll(_, _, _, _)
InsertAll(res, i, inserted, stmts) ==
    IF i > Len(res) THEN [ok |-> TRUE, inserted |-> inserted, stmts |-> stmts]
    ELSE LET values == InsertValues(res[i])
         IN  IF InsertSucceeds(values, inserted)
               THEN InsertAll(res, i + 1, Append(inserted, values),
                              Append(stmts, Stmt("INSERT", TRUE, i)))
               ELSE [ok |-> FALSE, inserted |-> inserted,
                     stmts |-> Append(stmts, Stmt("INSERT", FALSE, i))]

\* if not self.results: return False
SqliteEmpty(database) == [ret |-> Some(FALSE), db |-> database, exc |-> None]

\* except Exception: print, return False (nothing is committed or rolled back)
SqliteExcept(database) == [ret |-> Some(FALSE), db |-> database, exc |-> None]

\* connectOk: whether sqlite3.connect(filename) succeeds
export_to_sqlite(res, database, connectOk) ==
    IF res = <<>> THEN SqliteEmpty(database)
    ELSE IF ~connectOk THEN SqliteExcept(database)
    ELSE LET fields == CreateFields(res)
             dropped == <<Stmt("DROP", TRUE, 0)>>
         IN  IF ~CreateSucceeds(fields)
               THEN SqliteExcept([table |-> None, rows |-> <<>>,
                                  stmts |-> Append(dropped, Stmt("CREATE", FALSE, 0))])
               ELSE LET ins == InsertAll(res, 1, <<>>,
                                         Append(dropped, Stmt("CREATE", TRUE, 0)))
                    IN  IF ins.ok
                          THEN [ret |-> Some(TRUE),
                                db |-> [table |-> Some(fields), rows |-> ins.inserted,
                                        stmts |-> Append(ins.stmts, Stmt("COMMIT", TRUE, 0))],
                                exc |-> None]
                          ELSE SqliteExcept([table |-> Some(fields), rows |-> <<>>,
                                             stmts |-> ins.stmts])

(***************************************************************************)
(* main: build the filter, fetch, export to CSV, export to SQLite          *)
(***************************************************************************)

\* filter_query = api.build_filter_query(...)
MainBuild ==
    /\ pc = "start"
    /\ filter_query' = Some(build_filter_query(args))
    /\ pc' = "built"
    /\ UNCHANGED <<args>>
    /\ UNCHANGED fetchVars
    /\ UNCHANGED exportVars

\* api.fetch_grants(...) is called
MainFetch ==
    /\ pc = "built"
    /\ FetchEnter
    /\ pc' = "loop"
    /\ UNCHANGED <<args, filter_query>>
    /\ UNCHANGED exportVars

\* if api.results: api.export_to_csv(args.csv)
MainExportCsv ==
    /\ pc = "fetched"
    /\ results # <<>>
    /\ \E openOk \in BOOLEAN :
         \E r \in {export_to_csv(results, csvFile, openOk)} :
             /\ csvFile' = r.file
             /\ csvRet' = r.ret
             /\ exception' = r.exc
             /\ pc' = IF r.exc = None THEN "csv_done" ELSE "crashed"
    /\ UNCHANGED <<args, filter_query, page_size, max_pages, results, page, total_pages,
                   response, requests, served, log, db, sqliteRet>>

\* api.export_to_sqlite(args.sqlite)
MainExportSqlite ==
    /\ pc = "csv_done"
    /\ \E connectOk \in BOOLEAN :
         \E r \in {export_to_sqlite(results, db, connectOk)} :
             /\ db' = r.db
             /\ sqliteRet' = r.ret
             /\ exception' = r.exc
             /\ pc' = IF r.exc = None THEN "done" ELSE "crashed"
    /\ UNCHANGED <<args, filter_query, page_size, max_pages, results, page, total_pages,
                   response, requests, served, log, csvFile, csvRet>>

\* else: print("No results found. Nothing exported.")
MainNothing ==
    /\ pc = "fetched"
    /\ results = <<>>
    /\ pc' = "done"
    /\ UNCHANGED <<args, filter_query>>
    /\ UNCHANGED fetchVars
    /\ UNCHANGED exportVars

\* The command lines of the modelled runs: no filter and the default page
\* size, or a text and a status filter with a page size over the API's limit.
CommandLines ==
    { [args |-> [n \in ArgNames |-> None], page_size |-> 100],
      [args |-> [n \in ArgNames |-> IF n \in {"search_text", "status"}
                                      THEN Some(ArgValue[n]) ELSE None],
       page_size |-> 2000] }

MaxPagesArgs == {None, Some(0)} \cup {Some(n) : n \in 1..MaxPage}

Idle ==
    /\ filter_query = None
    /\ results = <<>>
    /\ page = 1
    /\ total_pages = None
    /\ response = None
    /\ requests = <<>>
    /\ served = <<>>
    /\ log = <<>>
    /\ exception = None
    /\ csvRet = None
    /\ sqliteRet = None

Init ==
    /\ pc = "start"
    /\ \E c \in CommandLines :
         /\ args = c.args
         /\ page_size = c.page_size
    /\ max_pages \in MaxPagesArgs
    /\ csvFile = NoFile
    /\ db = NoTable
    /\ Idle

Next ==
    \/ MainBuild
    \/ MainFetch
    \/ FetchNetworkError
    \/ FetchHttpError
    \/ FetchPageOk
    \/ MainExportCsv
    \/ MainExportSqlite
    \/ MainNothing

Spec == Init /\ [][Next]_vars

(***************************************************************************)
(* build_filter_query alone, over every argument vector                    *)
(***************************************************************************)

InitFilter ==
    /\ pc = "start"
    /\ args \in ArgVectors
    /\ page_size = 100
    /\ max_pages = None
    /\ csvFile = NoFile
    /\ db = NoTable
    /\ Idle

SpecFilter == InitFilter /\ [][MainBuild]_vars

(***************************************************************************)
(* The exporters alone, on an ARCGrantsAPI object holding any record list  *)
(***************************************************************************)

\* The longest record list the exporters are given.
MaxRecords == 2

\* The attribute maps of the records: "a-b" and "a_b" each absent or holding
\* one of their values, or a single attribute named "id".
AttributeMaps ==
    { [k \in keys |-> IF k = KeyAB THEN ab ELSE a_b] :
        keys \in SUBSET {KeyAB, KeyA_B},
        ab \in {Null, Num(50000), Str("x")},
        a_b \in {Bool(TRUE), List(<<"a", "b">>), Dict("k", "v")} }
    \cup { [k \in {KeyId} |-> Str("Z")] }

\* The records: an id with an attribute map, and records lacking a key.
Grants ==
    { Grant(Some(id), Some(m)) : id \in {"A", "B"}, m \in AttributeMaps }
    \cup { Grant(Some("A"), None), Grant(None, None) }

RecordLists == UNION { [1..n -> Grants] : n \in 0..MaxRecords }

InitExport ==
    /\ pc = "api"
    /\ args \in {[n \in ArgNames |-> None]}
    /\ page_size = 100
    /\ max_pages = None
    /\ \E prior \in BOOLEAN :
         /\ csvFile = IF prior THEN OldFile ELSE NoFile
         /\ db = IF prior THEN OldTable ELSE NoTable
    /\ filter_query = None
    /\ results \in RecordLists
    /\ page = 1
    /\ total_pages = None
    /\ response = None
    /\ requests = <<>>
    /\ served = <<>>
    /\ log = <<>>
    /\ exception = None
    /\ csvRet = None
    /\ sqliteRet = None

\* api.export_to_csv(filename) on the object
CallExportCsv ==
    /\ pc = "api"
    /\ csvRet = None
    /\ \E openOk \in BOOLEAN :
         \E r \in {export_to_csv(results, csvFile, openOk)} :
             /\ csvFile' = r.file
             /\ csvRet' = r.ret
             /\ exception' = r.exc
             /\ pc' = IF r.exc = None THEN "api" ELSE "crashed"
    /\ UNCHANGED <<args, filter_query, page_size, max_pages, results, page, total_pages,
                   response, requests, served, log, db, sqliteRet>>

\* api.export_to_sqlite(filename) on the object
CallExportSqlite ==
    /\ pc = "api"
    /\ sqliteRet = None
    /\ \E connectOk \in BOOLEAN :
         \E r \in {export_to_sqlite(results, db, connectOk)} :
             /\ db' = r.db
             /\ sqliteRet' = r.ret
             /\ exception' = r.exc
             /\ pc' = IF r.exc = None THEN "api" ELSE "crashed"
    /\ UNCHANGED <<args, filter_query, page_size, max_pages, results, page, total_pages,
                   response, requests, served, log, csvFile, csvRet>>

NextExport == CallExportCsv \/ CallExportSqlite

SpecExport == InitExport /\ [][NextExport]_vars

(***************************************************************************)
(* Properties of build_filter_query                                        *)
(***************************************************************************)

\* The criteria in the order the clauses are to appear, with the API's names.
FieldOrder ==
    << <<"scheme", "scheme">>, <<"admin_org", "admin-org-name">>,
       <<"admin_org_short", "admin-org-short-name">>, <<"status", "status">>,
       <<"year_from", "year-from">>, <<"year_to", "year-to">>,
       <<"funding_from", "funding-from">>, <<"funding_to", "funding-to">>,
       <<"fellowships_only", "fellowships-only">>, <<"lief_register", "lief-register">>,
       <<"four_digit_for", "four-digit-for">>, <<"two_digit_for", "two-digit-for">> >>

NonEmpty(a, n) == a[n] \notin {None, Some("")}

\* The clauses of the first n criteria joined by " AND ", built from the right.
RECURSIVE ExpectedClauses(_, _)
ExpectedClauses(a, n) ==
    IF n = 0 THEN ""
    ELSE LET before == ExpectedClauses(a, n - 1)
             f == FieldOrder[n]
         IN  IF ~NonEmpty(a, f[1]) THEN before
             ELSE IF before = "" THEN f[2] \o "=\"" \o a[f[1]][1] \o "\""
             ELSE before \o " AND " \o f[2] \o "=\"" \o a[f[1]][1] \o "\""

ExpectedFilter(a) ==
    LET clauses == ExpectedClauses(a, Len(FieldOrder))
        anyCriterion == \E n \in Criteria : NonEmpty(a, n)
        text == NonEmpty(a, "search_text")
    IN  IF text /\ anyCriterion THEN a["search_text"][1] \o " => (" \o clauses \o ")"
        ELSE IF anyCriterion THEN "=> (" \o clauses \o ")"
        ELSE IF text THEN a["search_text"][1]
        ELSE ""

\* C4: for every combination of free text and the twelve criteria, the string
\* build_filter_query returns is "<text> => (<c1> AND ...)" when text and a
\* criterion are non-empty, "=> (<c1> AND ...)" when only criteria are, the text
\* when only the text is, and "" when neither is; the clauses are the non-empty
\* criteria as field-name="value" in the fixed order.
C4_FilterJoinRule ==
    pc = "built" => filter_query = Some(ExpectedFilter(args))

\* A call with text, two criteria, and one criterion given as the empty string.
C4_Witness ==
    /\ pc = "built"
    /\ args["search_text"] = Some("coral reef")
    /\ args["scheme"] = Some("")
    /\ args["status"] = Some("Active")
    /\ args["two_digit_for"] = Some("08")
    /\ filter_query = Some("coral reef => (status=\"Active\" AND two-digit-for=\"08\")")

(***************************************************************************)
(* Properties of fetch_grants                                              *)
(***************************************************************************)

FetchReturned == pc \in {"fetched", "csv_done", "done"}

OkWithData(resp) == resp.kind = "ok" /\ resp.data # None

HasNextLink(resp) ==
    resp.links \notin {None, Some(None), Some(Some(Null)), Some(Some(Str("")))}

\* The data arrays of the first n answers, concatenated in page order.
RECURSIVE ConcatData(_, _)
ConcatData(pages, n) ==
    IF n = 0 THEN <<>> ELSE ConcatData(pages, n - 1) \o pages[n].data[1]

\* The requests so far are for pages 1, 2, ... in this order, one each.
RequestsInOrder == \A i \in DOMAIN requests : requests[i].number = i

\* C1: when every page answers successfully with a data key and the last page
\* is the first without a next link, fetch_grants with no max_pages requests
\* pages 1..k in order, once each, and returns the concatenation of the pages'
\* data in page order, nothing dropped, reordered or deduplicated.
C1_FetchAllPages ==
    (/\ FetchReturned
     /\ max_pages = None
     /\ \A i \in DOMAIN served : OkWithData(served[i]))
    => /\ Len(requests) = Len(served)
       /\ RequestsInOrder
       /\ \A i \in DOMAIN served : HasNextLink(served[i]) <=> i < Len(served)
       /\ results = ConcatData(served, Len(served))

\* Three pages fetched, a record returned twice among them.
C1_Witness ==
    /\ pc = "fetched"
    /\ max_pages = None
    /\ Len(served) = 3
    /\ \A i \in DOMAIN served : OkWithData(served[i])
    /\ results = <<GrantB, GrantA, GrantA, GrantB, GrantA>>

\* C2: with max_pages = n >= 1, fetch_grants issues at most n requests, and if
\* every requested page succeeds it returns the data of the first
\* min(n, available) pages: it stops before n only at a page without a next link.
C2_MaxPages ==
    (max_pages # None /\ max_pages # Some(0))
    => /\ Len(requests) <= max_pages[1]
       /\ (FetchReturned /\ \A i \in DOMAIN served : OkWithData(served[i]))
          => /\ RequestsInOrder
             /\ results = ConcatData(served, Len(served))
             /\ \A i \in 1..(Len(served) - 1) : HasNextLink(served[i])
             /\ Len(served) = max_pages[1] \/ ~HasNextLink(served[Len(served)])

\* max_pages = 1 and a first page that links to a next one.
C2_Witness ==
    /\ pc = "fetched"
    /\ max_pages = Some(1)
    /\ Len(served) = 1
    /\ OkWithData(served[1])
    /\ HasNextLink(served[1])
    /\ results = <<GrantB, GrantA>>

\* C3: when the request for page p fails (no response, or a 4xx/5xx status)
\* after pages 1..p-1 succeeded, fetch_grants raises nothing, requests nothing
\* more and returns the records of pages 1..p-1.
C3_FailureReturnsPartial ==
    (/\ served # <<>>
     /\ served[Len(served)].kind \in {"net", "http"}
     /\ \A i \in 1..(Len(served) - 1) : OkWithData(served[i]))
    => /\ exception = None
       /\ FetchReturned
       /\ Len(requests) = Len(served)
       /\ results = ConcatData(served, Len(served) - 1)

(***************************************************************************)
(* Properties of main                                                      *)
(***************************************************************************)

\* C9: in a run whose fetch returned at least one record the CSV export is
\* attempted first and the table export always afterwards, whether the CSV
\* export succeeded or failed; no exporter's failure leaves it as an exception,
\* and the run completes.
C9_BothExportsAttempted ==
    /\ sqliteRet # None => csvRet # None
    /\ (pc = "fetched" /\ results # <<>>) => ENABLED MainExportCsv
    /\ pc = "csv_done" => (csvRet # None /\ ENABLED MainExportSqlite)
    /\ (pc = "done" /\ results # <<>>) => (csvRet # None /\ sqliteRet # None)
    /\ exception # None => exception[1].in = "fetch_grants"
    /\ (FetchReturned /\ results # <<>>) => exception = None

\* A completed run whose CSV export failed and whose table export ran after it.
C9_Witness ==
    /\ pc = "done"
    /\ results # <<>>
    /\ csvRet = Some(FALSE)
    /\ csvFile = NoFile
    /\ sqliteRet = Some(TRUE)
    /\ db.stmts # <<>>

(***************************************************************************)
(* Properties of the exporters                                             *)
(***************************************************************************)

\* The destinations as they were before any export: both old or both absent.
Untouched ==
    \/ csvFile = NoFile /\ db = NoTable
    \/ csvFile = OldFile /\ db = OldTable

\* C6: with an empty record list export_to_csv and export_to_sqlite each
\* return False and leave the destination as it was: nothing is opened,
\* created, dropped or written.
C6_EmptyExportsNothing ==
    results = <<>>
    => /\ csvRet \in {None, Some(FALSE)}
       /\ sqliteRet \in {None, Some(FALSE)}
       /\ exception = None
       /\ Untouched

\* Both exporters called on an empty list, with a file and a table in place.
C6_Witness ==
    /\ results = <<>>
    /\ csvRet = Some(FALSE)
    /\ sqliteRet = Some(FALSE)
    /\ csvFile = OldFile
    /\ db = OldTable

\* The first non-null value of an attribute, scanning the records in order.
RECURSIVE FirstNonNull(_, _, _)
FirstNonNull(key, res, i) ==
    IF i > Len(res) THEN None
    ELSE IF /\ res[i].attributes # None
            /\ key \in DOMAIN res[i].attributes[1]
            /\ res[i].attributes[1][key].t # "null"
      THEN Some(res[i].attributes[1][key])
      ELSE FirstNonNull(key, res, i + 1)

\* REAL when the first non-null value is a number (a Python bool counts as int).
FirstValueType(key, res) ==
    LET first == FirstNonNull(key, res, 1)
    IN  IF first # None /\ first[1].t \in {"num", "bool"} THEN "REAL" ELSE "TEXT"

AttributeKeys(res) ==
    { k \in {KeyAB, KeyA_B, KeyId} :
        \E i \in DOMAIN res : res[i].attributes # None /\ k \in DOMAIN res[i].attributes[1] }

Underscored(key) == IF key = KeyAB THEN KeyA_B ELSE key

TableCreated == \E i \in DOMAIN db.stmts : db.stmts[i] = Stmt("CREATE", TRUE, 0)

\* C5: the type of every attribute's column is REAL exactly when the first
\* non-null value of the attribute, in accumulation order, is a number, and
\* TEXT otherwise, also when a later record holds a number.
C5_FirstNonNullDecides ==
    TableCreated
    => \A k \in AttributeKeys(results) :
         \E i \in DOMAIN db.table[1] :
            /\ db.table[1][i].name = Underscored(k)
            /\ db.table[1][i].type = FirstValueType(k, results)

\* The header and the rows the claim describes.
ExpectedHeader(res) ==
    <<KeyId>> \o SelectSeq(<<KeyAB, KeyA_B, KeyId>>, LAMBDA k : k \in AttributeKeys(res))

ExpectedCell(grant, key) ==
    IF grant.attributes = None \/ key \notin DOMAIN Attributes(grant) THEN Str("")
    ELSE LET value == grant.attributes[1][key]
         IN  IF value.t = "list"
               THEN Str("[\"" \o value.v[1] \o "\", \"" \o value.v[2] \o "\"]")
             ELSE IF value.t = "dict"
               THEN Str("{\"" \o value.v[1] \o "\": \"" \o value.v[2] \o "\"}")
             ELSE value

\* C7: for a non-empty record list the CSV holds the header "id" then the
\* sorted union of all records' attribute keys, and one row per record in
\* order: the id cell holds the record's id, a list or mapping is its JSON
\* text, any other value is as it is, a lacking attribute is an empty cell.
C7_CsvLayout ==
    csvRet = Some(TRUE)
    => /\ results # <<>>
       /\ csvFile.exists
       /\ csvFile.header = ExpectedHeader(results)
       /\ Len(csvFile.rows) = Len(results)
       /\ \A i \in DOMAIN results :
            /\ Len(csvFile.rows[i]) = Len(csvFile.header)
            /\ csvFile.rows[i][1] =
                 (IF results[i].id = None THEN Str("") ELSE Str(results[i].id[1]))
            /\ \A j \in 2..Len(csvFile.header) :
                 csvFile.rows[i][j] = ExpectedCell(results[i], csvFile.header[j])

RecordId(grant) == IF grant.id = None THEN "" ELSE grant.id[1]

\* The position of the first record whose id an earlier record holds, or 0.
SecondOccurrence(res) ==
    IF \E j \in DOMAIN res : \E i \in 1..(j - 1) : RecordId(res[i]) = RecordId(res[j])
      THEN CHOOSE j \in DOMAIN res :
             /\ \E i \in 1..(j - 1) : RecordId(res[i]) = RecordId(res[j])
             /\ \A k \in 1..(j - 1) :
                  \A i \in 1..(k - 1) : RecordId(res[i]) # RecordId(res[k])
      ELSE 0

\* C8: when two records share an id, export_to_sqlite drops and recreates the
\* table, inserts the records before the second occurrence, fails on the
\* second occurrence, issues no later insert and no commit, raises nothing and
\* returns False.
C8_DuplicateIdAborts ==
    (sqliteRet # None /\ db.stmts # <<>> /\ SecondOccurrence(results) # 0)
    => LET d == SecondOccurrence(results)
       IN  /\ sqliteRet = Some(FALSE)
           /\ exception = None
           /\ db.stmts = <<Stmt("DROP", TRUE, 0), Stmt("CREATE", TRUE, 0)>>
                         \o [i \in 1..d |-> Stmt("INSERT", i < d, i)]

\* C10: for a non-empty record list with pairwise distinct ids, the columns of
\* CREATE TABLE are pairwise distinct, every record's insert names one column
\* per attribute it holds besides id, and the export returns True, also when
\* two keys differ only in hyphen versus underscore or a key is named id.
C10_DistinctColumns ==
    (/\ sqliteRet # None
     /\ db.stmts # <<>>
     /\ SecondOccurrence(results) = 0)
    => /\ sqliteRet = Some(TRUE)
       /\ db.table # None
       /\ \A i, j \in DOMAIN db.table[1] :
            db.table[1][i].name = db.table[1][j].name => i = j
       /\ Len(db.rows) = Len(results)
       /\ \A i \in DOMAIN results :
            Cardinality(DOMAIN db.rows[i]) = 1 + Cardinality(DOMAIN Attributes(results[i]))
====
